---- MODULE Spec2Model ----
(***************************************************************************)
(* SHA-256 as implemented in src/sha-256.py.                               *)
(*                                                                         *)
(* Python integers are unbounded and its bitwise operators act on the      *)
(* infinite two's-complement form.  An integer is therefore modelled as a  *)
(* record [s, b]: b is the sequence of its low bits, least significant     *)
(* first, and s (0 or 1) is the bit repeated for ever above them.  The     *)
(* record is kept normal: the top bit of b differs from s.  Nothing is     *)
(* cut to 32 bits unless the code masks it.                                *)
(***************************************************************************)
EXTENDS Integers, Sequences, FiniteSets, TLC

----------------------------------------------------------------------------
(* Python's int *)

Max(i, j) == IF i >= j THEN i ELSE j

\* a function over 1..n as a sequence value
Tup(f) == SubSeq(f, 1, Len(f))

Bit(x, i) == IF i <= Len(x.b) THEN x.b[i] ELSE x.s

RECURSIVE Norm(_)
Norm(x) ==
  IF Len(x.b) > 0 /\ x.b[Len(x.b)] = x.s
    THEN Norm([s |-> x.s, b |-> SubSeq(x.b, 1, Len(x.b) - 1)])
    ELSE x

RECURSIVE NatBits(_)
NatBits(n) == IF n = 0 THEN << >> ELSE << n % 2 >> \o NatBits(n \div 2)

\* a small non-negative literal or length as a Python int
PyInt(n) == [s |-> 0, b |-> NatBits(n)]

\* x & y
BitAnd(x, y) ==
  Norm([s |-> x.s * y.s,
        b |-> Tup([i \in 1..Max(Len(x.b), Len(y.b)) |-> Bit(x, i) * Bit(y, i)])])

\* x | y
BitOr(x, y) ==
  Norm([s |-> Max(x.s, y.s),
        b |-> Tup([i \in 1..Max(Len(x.b), Len(y.b)) |-> Max(Bit(x, i), Bit(y, i))])])

\* x ^ y
BitXor(x, y) ==
  Norm([s |-> (x.s + y.s) % 2,
        b |-> Tup([i \in 1..Max(Len(x.b), Len(y.b)) |-> (Bit(x, i) + Bit(y, i)) % 2])])

\* ~x
BitNot(x) == [s |-> 1 - x.s, b |-> Tup([i \in 1..Len(x.b) |-> 1 - x.b[i]])]

\* x >> n (arithmetic: the sign is kept)
RShift(x, n) == [s |-> x.s, b |-> SubSeq(x.b, n + 1, Len(x.b))]

\* x << n
LShift(x, n) ==
  Norm([s |-> x.s, b |-> Tup([i \in 1..(Len(x.b) + n) |-> IF i <= n THEN 0 ELSE x.b[i - n]])])

\* the bits of x + y from position i on, with carry c, over n positions
RECURSIVE AddBits(_, _, _, _, _)
AddBits(x, y, i, n, c) ==
  IF i > n THEN << >>
  ELSE LET sum == Bit(x, i) + Bit(y, i) + c
       IN  << sum % 2 >> \o AddBits(x, y, i + 1, n, sum \div 2)

\* x + y: two positions above the longer operand hold the sign of the sum
Add(x, y) ==
  LET n    == Max(Len(x.b), Len(y.b)) + 2
      bits == AddBits(x, y, 1, n, 0)
  IN  Norm([s |-> bits[n], b |-> bits])

\* 0 <= x < 2^32
IsWord(x) == x.s = 0 /\ Len(x.b) <= 32

\* 0xFFFFFFFF
MASK32 == [s |-> 0, b |-> Tup([i \in 1..32 |-> 1])]

\* a 32-bit literal of the source, written as its two 16-bit halves
W32(hi, lo) == BitOr(LShift(PyInt(hi), 16), PyInt(lo))

----------------------------------------------------------------------------
(* The functions of FIPS 180-4, section 4.1.2, as the source writes them *)

\* rotr with no mask at all: the left-shifted term keeps its high bits
rotr_unmasked(x, n) == BitOr(RShift(x, n), LShift(x, 32 - n))

\* & binds tighter than | in Python: only the left-shifted term is masked
rotr(x, n) == BitOr(RShift(x, n), BitAnd(LShift(x, 32 - n), MASK32))

shr(x, n) == RShift(x, n)

\* ch with the complement of x forgotten
ch_no_complement(x, y, z) == BitXor(BitAnd(x, y), BitAnd(x, z))

ch(x, y, z) == BitXor(BitAnd(x, y), BitAnd(BitNot(x), z))

maj(x, y, z) == BitXor(BitXor(BitAnd(x, y), BitAnd(x, z)), BitAnd(y, z))

\* Sigma0 with its last rotation off by one
sigma0_256_rot23(x) == BitXor(BitXor(rotr(x, 2), rotr(x, 13)), rotr(x, 23))

sigma0_256(x) == BitXor(BitXor(rotr(x, 2), rotr(x, 13)), rotr(x, 22))

sigma1_256(x) == BitXor(BitXor(rotr(x, 6), rotr(x, 11)), rotr(x, 25))

sigma0_256_small(x) == BitXor(BitXor(rotr(x, 7), rotr(x, 18)), shr(x, 3))

sigma1_256_small(x) == BitXor(BitXor(rotr(x, 17), rotr(x, 19)), shr(x, 10))

K_256 == <<
  W32(\h428a, \h2f98), W32(\h7137, \h4491), W32(\hb5c0, \hfbcf), W32(\he9b5, \hdba5),
  W32(\h3956, \hc25b), W32(\h59f1, \h11f1), W32(\h923f, \h82a4), W32(\hab1c, \h5ed5),
  W32(\hd807, \haa98), W32(\h1283, \h5b01), W32(\h2431, \h85be), W32(\h550c, \h7dc3),
  W32(\h72be, \h5d74), W32(\h80de, \hb1fe), W32(\h9bdc, \h06a7), W32(\hc19b, \hf174),
  W32(\he49b, \h69c1), W32(\hefbe, \h4786), W32(\h0fc1, \h9dc6), W32(\h240c, \ha1cc),
  W32(\h2de9, \h2c6f), W32(\h4a74, \h84aa), W32(\h5cb0, \ha9dc), W32(\h76f9, \h88da),
  W32(\h983e, \h5152), W32(\ha831, \hc66d), W32(\hb003, \h27c8), W32(\hbf59, \h7fc7),
  W32(\hc6e0, \h0bf3), W32(\hd5a7, \h9147), W32(\h06ca, \h6351), W32(\h1429, \h2967),
  W32(\h27b7, \h0a85), W32(\h2e1b, \h2138), W32(\h4d2c, \h6dfc), W32(\h5338, \h0d13),
  W32(\h650a, \h7354), W32(\h766a, \h0abb), W32(\h81c2, \hc92e), W32(\h9272, \h2c85),
  W32(\ha2bf, \he8a1), W32(\ha81a, \h664b), W32(\hc24b, \h8b70), W32(\hc76c, \h51a3),
  W32(\hd192, \he819), W32(\hd699, \h0624), W32(\hf40e, \h3585), W32(\h106a, \ha070),
  W32(\h19a4, \hc116), W32(\h1e37, \h6c08), W32(\h2748, \h774c), W32(\h34b0, \hbcb5),
  W32(\h391c, \h0cb3), W32(\h4ed8, \haa4a), W32(\h5b9c, \hca4f), W32(\h682e, \h6ff3),
  W32(\h748f, \h82ee), W32(\h78a5, \h636f), W32(\h84c8, \h7814), W32(\h8cc7, \h0208),
  W32(\h90be, \hfffa), W32(\ha450, \h6ceb), W32(\hbef9, \ha3f7), W32(\hc671, \h78f2) >>

\* the list literal of lines 105-108
InitialHash == <<
  W32(\h6a09, \he667), W32(\hbb67, \hae85), W32(\h3c6e, \hf372), W32(\ha54f, \hf53a),
  W32(\h510e, \h527f), W32(\h9b05, \h688c), W32(\h1f83, \hd9ab), W32(\h5be0, \hcd19) >>

----------------------------------------------------------------------------
(* Values: a message, a padded message and a function's outcome are all    *)
(* records [type, val]; type is the Python type of the value, or the name  *)
(* of the exception raised in its place.                                   *)

Bytes(seq) == [type |-> "bytes", val |-> seq]

Str(seq) == [type |-> "str", val |-> seq]

Raised(exc) == [type |-> exc, val |-> << >>]

Min(i, j) == IF i <= j THEN i ELSE j

\* s[lo:hi], Python's slice: 0-based, hi excluded, clamped to the length
Slice(s, lo, hi) == SubSeq(s, lo + 1, Min(hi, Len(s)))

\* n.to_bytes(length, 'big') when n fits
RECURSIVE to_bytes(_, _)
to_bytes(n, length) ==
  IF length = 0 THEN << >> ELSE to_bytes(n \div 256, length - 1) \o << n % 256 >>

\* whether n < 256^length, that is whether to_bytes raises no OverflowError
RECURSIVE FitsBytes(_, _)
FitsBytes(n, length) == IF length = 0 THEN n = 0 ELSE FitsBytes(n \div 256, length - 1)

\* int.from_bytes(bs, 'big')
RECURSIVE from_bytes(_)
from_bytes(bs) ==
  IF bs = << >> THEN PyInt(0)
  ELSE BitOr(LShift(from_bytes(SubSeq(bs, 1, Len(bs) - 1)), 8), PyInt(bs[Len(bs)]))

\* the while loop run to a whole block, leaving no room for the length
RECURSIVE PadZerosToBlock(_)
PadZerosToBlock(padded_message) ==
  IF (Len(padded_message) * 8) % 512 # 0
    THEN PadZerosToBlock(padded_message \o << 0 >>)
    ELSE padded_message

\* the while loop of padding
RECURSIVE PadZeros(_)
PadZeros(padded_message) ==
  IF (Len(padded_message) * 8) % 512 # 448
    THEN PadZeros(padded_message \o << 0 >>)
    ELSE padded_message

\* padding with the bit length taken after 0x80 was appended
padding_length_after(message_bytes) ==
  LET message_bit_length == (Len(message_bytes.val) + 1) * 8
  IN  IF message_bytes.type # "bytes" THEN Raised("TypeError")
      ELSE IF ~FitsBytes(message_bit_length, 8) THEN Raised("OverflowError")
      ELSE Bytes(PadZeros(message_bytes.val \o << 128 >>) \o to_bytes(message_bit_length, 8))

padding(message_bytes) ==
  LET message_bit_length == Len(message_bytes.val) * 8
  IN  IF message_bytes.type # "bytes" THEN Raised("TypeError")
      ELSE IF ~FitsBytes(message_bit_length, 8) THEN Raised("OverflowError")
      ELSE Bytes(PadZeros(message_bytes.val \o << 128 >>) \o to_bytes(message_bit_length, 8))

parse_message(padded_message) ==
  Tup([k \in 1..((Len(padded_message) + 63) \div 64) |->
     LET block == Slice(padded_message, 64 * (k - 1), 64 * (k - 1) + 64)
     IN  Tup([q \in 1..16 |-> from_bytes(Slice(block, 4 * (q - 1), 4 * (q - 1) + 4))])])

----------------------------------------------------------------------------
(* Formatting: f'{x:08x}' and ''.join *)

HexChar(d) ==
  << "0", "1", "2", "3", "4", "5", "6", "7", "8", "9", "a", "b", "c", "d", "e", "f" >>[d + 1]

\* the hexadecimal digits of x > 0, most significant first
RECURSIVE HexDigits(_)
HexDigits(x) ==
  IF Len(x.b) = 0 THEN << >>
  ELSE HexDigits(RShift(x, 4))
         \o << HexChar(Bit(x, 1) + 2 * Bit(x, 2) + 4 * Bit(x, 3) + 8 * Bit(x, 4)) >>

\* format(x, 'x'): no zero fill
Format_x(x) ==
  LET mag    == IF x.s = 1 THEN Add(BitNot(x), PyInt(1)) ELSE x
      sign   == IF x.s = 1 THEN << "-" >> ELSE << >>
      digits == IF Len(mag.b) = 0 THEN << "0" >> ELSE HexDigits(mag)
  IN  sign \o digits

\* format(x, '08x'): sign, then zeros up to a width of 8, then the digits
Format08x(x) ==
  LET mag    == IF x.s = 1 THEN Add(BitNot(x), PyInt(1)) ELSE x
      sign   == IF x.s = 1 THEN << "-" >> ELSE << >>
      digits == IF Len(mag.b) = 0 THEN << "0" >> ELSE HexDigits(mag)
      fill   == Max(0, 8 - Len(sign) - Len(digits))
  IN  sign \o Tup([i \in 1..fill |-> "0"]) \o digits

RECURSIVE Join(_)
Join(parts) == IF parts = << >> THEN << >> ELSE parts[1] \o Join(Tail(parts))

----------------------------------------------------------------------------
(* One step of each loop of sha256_hash_computation.  Python indexes from  *)
(* 0, TLA+ from 1: w[t] of the source is w[t + 1] here.                    *)

\* the word appended at step t of the schedule loop, t in 16..63
ScheduleWord(w, t) ==
  LET s0 == sigma0_256_small(w[t - 15 + 1])
      s1 == sigma1_256_small(w[t - 2 + 1])
  IN  BitAnd(Add(Add(Add(w[t - 16 + 1], s0), w[t - 7 + 1]), s1), MASK32)

\* the body of the round loop at step t, t in 0..63
RoundStep(r, w, t) ==
  LET s1      == sigma1_256(r.e)
      ch_val  == ch(r.e, r.f, r.g)
      temp1   == BitAnd(Add(Add(Add(Add(r.h_temp, s1), ch_val), K_256[t + 1]), w[t + 1]), MASK32)
      s0      == sigma0_256(r.a)
      maj_val == maj(r.a, r.b, r.c)
      temp2   == BitAnd(Add(s0, maj_val), MASK32)
  IN  [h_temp |-> r.g,
       g      |-> r.f,
       f      |-> r.e,
       e      |-> BitAnd(Add(r.d, temp1), MASK32),
       d      |-> r.c,
       c      |-> r.b,
       b      |-> r.a,
       a      |-> BitAnd(Add(temp1, temp2), MASK32),
       temp1  |-> temp1,
       temp2  |-> temp2]

\* a, b, c, d, e, f, g, h_temp = h
Unpack(h, r) ==
  [a |-> h[1], b |-> h[2], c |-> h[3], d |-> h[4],
   e |-> h[5], f |-> h[6], g |-> h[7], h_temp |-> h[8],
   temp1 |-> r.temp1, temp2 |-> r.temp2]

\* [a, b, c, d, e, f, g, h_temp]
Working(r) == << r.a, r.b, r.c, r.d, r.e, r.f, r.g, r.h_temp >>

\* the loop over i in range(8)
AddWorking(h, r) == Tup([i \in 1..8 |-> BitAnd(Add(h[i], Working(r)[i]), MASK32)])

----------------------------------------------------------------------------
(* The program: calls of sha256, one at a time, step by step.              *)

VARIABLES
  pc,               \* where the interpreter is
  caller,           \* who called sha256: "client" or "test_sha256"
  message,          \* the argument of sha256
  previous,         \* the argument of the call of sha256 before this one
  padded_message,   \* padding's result
  message_blocks,   \* parse_message's result
  h,                \* the running hash state
  block,            \* how many blocks the for loop has taken from message_blocks
  w,                \* the message schedule
  t,                \* the loop counter of the schedule loop and of the round loop
  reg,              \* a, b, c, d, e, f, g, h_temp, temp1, temp2
  final_hash,       \* what sha256_hash_computation returned
  result,           \* what sha256 returned: a string, as a sequence of characters
  exception,        \* the uncaught exception that ended the program, or "none"
  test_line,        \* the line test_sha256 is at
  printed,          \* what test_sha256 has printed
  func,             \* SpecFn: the function called directly
  arg,              \* SpecFn: its argument
  ret               \* SpecFn: what it returned

vars == << pc, caller, message, previous, padded_message, message_blocks, h, block, w, t, reg,
           final_hash, result, exception, test_line, printed, func, arg, ret >>

fnVars == << func, arg, ret >>

\* byte i (from 1) of the pattern with step k
Pattern(n, k) == Tup([i \in 1..n |-> (i * k) % 256])

abc == << 97, 98, 99 >>

\* "abcdbcdecdefdefgefghfghighijhijkijkljklmklmnlmnomnopnopq", 56 bytes
\* (FIPS 180-4's two-block example)
TwoBlockMessage == Tup([i \in 1..56 |-> 97 + ((i - 1) \div 4) + ((i - 1) % 4)])

\* the byte messages clients pass to sha256
Messages ==
  { Bytes(<< >>), Bytes(abc), Bytes(TwoBlockMessage),
    Bytes(Pattern(55, 1)), Bytes(Pattern(64, 255)), Bytes(Pattern(120, 37)) }

\* the argument and the expected value of the call test_sha256 makes at a line
TestArg(line) == IF line = "153" THEN Str(<< >>) ELSE Str(abc)

expected1 == <<
  "e","3","b","0","c","4","4","2","9","8","f","c","1","c","1","4",
  "9","a","f","b","f","4","c","8","9","9","6","f","b","9","2","4",
  "2","7","a","e","4","1","e","4","6","4","9","b","9","3","4","c",
  "a","4","9","5","9","9","1","b","7","8","5","2","b","8","5","5" >>

expected2 == <<
  "b","a","7","8","1","6","b","f","8","f","0","1","c","f","e","a",
  "4","1","4","1","4","0","d","e","5","d","a","e","2","2","2","3",
  "b","0","0","3","6","1","a","3","9","6","1","7","8","2","9","b",
  "8","a","0","c","5","c","8","5","a","5","f","5","c","5","c" >>

NoReg == [a |-> PyInt(0), b |-> PyInt(0), c |-> PyInt(0), d |-> PyInt(0),
          e |-> PyInt(0), f |-> PyInt(0), g |-> PyInt(0), h_temp |-> PyInt(0),
          temp1 |-> PyInt(0), temp2 |-> PyInt(0)]

NoValue == [type |-> "unbound", val |-> << >>]

Init ==
  /\ pc = "idle"
  /\ caller = "client"
  /\ message = NoValue
  /\ previous = NoValue
  /\ padded_message = << >>
  /\ message_blocks = << >>
  /\ h = << >>
  /\ block = 0
  /\ w = << >>
  /\ t = 0
  /\ reg = NoReg
  /\ final_hash = NoValue
  /\ result = << >>
  /\ exception = "none"
  /\ test_line = "153"
  /\ printed = << >>
  /\ func = "none"
  /\ arg = << >>
  /\ ret = NoValue

\* a client calls sha256(m)
sha256(m) ==
  /\ pc = "idle"
  /\ caller = "client"
  /\ message' = m
  /\ previous' = message
  /\ pc' = "padding"
  /\ UNCHANGED << caller, padded_message, message_blocks, h, block, w, t, reg,
                  final_hash, result, exception, test_line, printed, fnVars >>

\* test_sha256 calls sha256 with the literal of its line 153, then of 157
test_sha256 ==
  /\ pc = "idle"
  /\ test_line \in { "153", "157" }
  /\ test_line = "157" => caller = "test_sha256"
  /\ caller' = "test_sha256"
  /\ message' = TestArg(test_line)
  /\ previous' = message
  /\ pc' = "padding"
  /\ UNCHANGED << padded_message, message_blocks, h, block, w, t, reg,
                  final_hash, result, exception, test_line, printed, fnVars >>

\* line 143: an exception of padding is caught nowhere
CallPadding ==
  /\ pc = "padding"
  /\ LET p == padding(message)
     IN  IF p.type = "bytes"
           THEN /\ padded_message' = p.val
                /\ pc' = "parse"
                /\ UNCHANGED exception
           ELSE /\ exception' = p.type
                /\ pc' = "raised"
                /\ UNCHANGED padded_message
  /\ UNCHANGED << caller, message, previous, message_blocks, h, block, w, t, reg,
                  final_hash, result, test_line, printed, fnVars >>

\* line 144
CallParse ==
  /\ pc = "parse"
  /\ message_blocks' = parse_message(padded_message)
  /\ pc' = "hash"
  /\ UNCHANGED << caller, message, previous, padded_message, h, block, w, t, reg,
                  final_hash, result, exception, test_line, printed, fnVars >>

\* h built once, at module level, and carried from call to call
HashInitOnce ==
  /\ pc = "hash"
  /\ h' = IF h = << >> THEN InitialHash ELSE h
  /\ block' = 0
  /\ pc' = "for_block"
  /\ UNCHANGED << caller, message, previous, padded_message, message_blocks, w, t, reg,
                  final_hash, result, exception, test_line, printed, fnVars >>

\* lines 105-108: sha256_hash_computation starts
HashInit ==
  /\ pc = "hash"
  /\ h' = InitialHash
  /\ block' = 0
  /\ pc' = "for_block"
  /\ UNCHANGED << caller, message, previous, padded_message, message_blocks, w, t, reg,
                  final_hash, result, exception, test_line, printed, fnVars >>

\* lines 110-111: the for loop takes the next block, or ends, and the
\* function then returns None
ForBlock ==
  /\ pc = "for_block"
  /\ IF block < Len(message_blocks)
       THEN /\ block' = block + 1
            /\ w' = message_blocks[block + 1]
            /\ t' = 16
            /\ pc' = "schedule"
            /\ UNCHANGED final_hash
       ELSE /\ final_hash' = [type |-> "NoneType", val |-> << >>]
            /\ pc' = "format"
            /\ UNCHANGED << block, w, t >>
  /\ UNCHANGED << caller, message, previous, padded_message, message_blocks, h, reg,
                  result, exception, test_line, printed, fnVars >>

\* lines 112-115
Schedule ==
  /\ pc = "schedule"
  /\ t < 64
  /\ w' = Append(w, ScheduleWord(w, t))
  /\ t' = t + 1
  /\ UNCHANGED << pc, caller, message, previous, padded_message, message_blocks, h, block, reg,
                  final_hash, result, exception, test_line, printed, fnVars >>

\* line 117
WorkingInit ==
  /\ pc = "schedule"
  /\ t = 64
  /\ reg' = Unpack(h, reg)
  /\ t' = 0
  /\ pc' = "rounds"
  /\ UNCHANGED << caller, message, previous, padded_message, message_blocks, h, block, w,
                  final_hash, result, exception, test_line, printed, fnVars >>

\* lines 119-134
Round ==
  /\ pc = "rounds"
  /\ t < 64
  /\ reg' = RoundStep(reg, w, t)
  /\ t' = t + 1
  /\ UNCHANGED << pc, caller, message, previous, padded_message, message_blocks, h, block, w,
                  final_hash, result, exception, test_line, printed, fnVars >>

\* lines 136-137
AddBack ==
  /\ pc = "rounds"
  /\ t = 64
  /\ h' = AddWorking(h, reg)
  /\ pc' = "return"
  /\ UNCHANGED << caller, message, previous, padded_message, message_blocks, block, w, t, reg,
                  final_hash, result, exception, test_line, printed, fnVars >>

\* line 139: the return statement stands inside the for loop, so the
\* function returns here whatever blocks remain
Return ==
  /\ pc = "return"
  /\ final_hash' = [type |-> "list", val |-> h]
  /\ pc' = "format"
  /\ UNCHANGED << caller, message, previous, padded_message, message_blocks, h, block, w, t, reg,
                  result, exception, test_line, printed, fnVars >>

\* line 146, and back in the caller: test_sha256 prints the comparison
\* (lines 154-155, 158-159) and goes on
Format ==
  /\ pc = "format"
  /\ IF final_hash.type # "list"
       THEN /\ exception' = "TypeError"
            /\ pc' = "raised"
            /\ UNCHANGED << result, caller, test_line, printed >>
       ELSE LET digest == Join(Tup([i \in 1..Len(final_hash.val) |-> Format08x(final_hash.val[i])]))
            IN  /\ result' = digest
                /\ pc' = "idle"
                /\ UNCHANGED exception
                /\ IF caller = "test_sha256"
                     THEN /\ printed' = Append(printed,
                                 digest = (IF test_line = "153" THEN expected1 ELSE expected2))
                          /\ test_line' = IF test_line = "153" THEN "157" ELSE "end"
                          /\ caller' = IF test_line = "153" THEN "test_sha256" ELSE "client"
                     ELSE UNCHANGED << caller, test_line, printed >>
  /\ UNCHANGED << message, previous, padded_message, message_blocks, h, block, w, t, reg,
                  final_hash, fnVars >>

Next ==
  \/ \E m \in Messages : sha256(m)
  \/ test_sha256
  \/ CallPadding
  \/ CallParse
  \/ HashInit
  \/ ForBlock
  \/ Schedule
  \/ WorkingInit
  \/ Round
  \/ AddBack
  \/ Return
  \/ Format

Spec == Init /\ [][Next]_vars

----------------------------------------------------------------------------
(* padding and parse_message called directly, on any byte sequence *)

MaxLen == 130

PatternSteps == { 0, 1, 255 }

FnInputs == { Pattern(n, k) : n \in 0..MaxLen, k \in PatternSteps }

InitFn ==
  /\ pc = "idle"
  /\ caller = "client"
  /\ message = NoValue
  /\ previous = NoValue
  /\ padded_message = << >>
  /\ message_blocks = << >>
  /\ h = << >>
  /\ block = 0
  /\ w = << >>
  /\ t = 0
  /\ reg = NoReg
  /\ final_hash = NoValue
  /\ result = << >>
  /\ exception = "none"
  /\ test_line = "153"
  /\ printed = << >>
  /\ func = "none"
  /\ arg \in FnInputs
  /\ ret = NoValue

mainVars == << pc, caller, message, previous, padded_message, message_blocks, h, block,
               w, t, reg, final_hash, result, exception, test_line, printed >>

DirectPadding ==
  /\ func = "none"
  /\ func' = "padding"
  /\ ret' = padding(Bytes(arg))
  /\ UNCHANGED << arg, mainVars >>

DirectParse ==
  /\ func = "none"
  /\ func' = "parse_message"
  /\ ret' = [type |-> "list", val |-> parse_message(arg)]
  /\ UNCHANGED << arg, mainVars >>

NextFn == DirectPadding \/ DirectParse

SpecFn == InitFn /\ [][NextFn]_vars

----------------------------------------------------------------------------
(* Properties *)

\* sha256(m) has returned to its caller
Returned(m) == pc = "idle" /\ message = m

HexLower == { HexChar(d) : d \in 0..15 }

\* the digest of "abc" in FIPS 180-4, appendix B.1
abc_digest == <<
  "b","a","7","8","1","6","b","f","8","f","0","1","c","f","e","a",
  "4","1","4","1","4","0","d","e","5","d","a","e","2","2","2","3",
  "b","0","0","3","6","1","a","3","9","6","1","7","7","a","9","c",
  "b","4","1","0","f","f","6","1","f","2","0","0","1","5","a","d" >>

\* C1: every block of the padded message is folded: when sha256_hash_computation
\* returns, the running state has been updated once per block, the last
\* included, also for a message of two blocks or more.
C1_EveryBlockFolded ==
  (pc = "format" /\ final_hash.type = "list") => block = Len(message_blocks)

C3_EmptyDigest ==
  Returned(Bytes(<< >>)) =>
    /\ result = expected1
    /\ padded_message = << 128 >> \o Tup([i \in 1..63 |-> 0])
    /\ Len(message_blocks) = 1
    /\ block = 1

C3_Witness == Returned(Bytes(<< >>)) /\ result # << >> /\ previous.type = "unbound"

\* C4: len(padding(m)) is a positive multiple of 64 and exceeds len(m) by at
\* least 9 and at most 72, by 9 exactly when len(m) mod 64 = 55 and by 72
\* exactly when len(m) mod 64 = 56.
C4_PaddedLength ==
  func = "padding" =>
    LET added == Len(ret.val) - Len(arg)
    IN  /\ ret.type = "bytes"
        /\ Len(ret.val) > 0
        /\ Len(ret.val) % 64 = 0
        /\ (Len(ret.val) * 8) % 512 = 0
        /\ added >= 9
        /\ added <= 72
        /\ (added = 9) <=> (Len(arg) % 64 = 55)
        /\ (added = 72) <=> (Len(arg) % 64 = 56)

C4_Witness ==
  /\ func = "padding"
  /\ Len(arg) = 120
  /\ Len(ret.val) = 192

\* C5: sha256 of a byte message returns 64 characters, each a lowercase
\* hexadecimal digit; sha256_hash_computation returns a list of 8 words,
\* never None, the padded message having at least one block.
C5_DigestFormat ==
  /\ (pc = "idle" /\ message.type = "bytes") =>
        /\ Len(result) = 64
        /\ \A i \in 1..Len(result) : result[i] \in HexLower
  /\ pc = "format" => (final_hash.type = "list" /\ Len(final_hash.val) = 8)
  /\ pc \in { "hash", "for_block" } => Len(message_blocks) >= 1

\* a digest with a word that needs its leading zero
C5_Witness ==
  /\ pc = "idle"
  /\ message.type = "bytes"
  /\ Len(result) = 64
  /\ \E i \in 1..8 : Len(final_hash.val[i].b) <= 28

\* C6: the two calls test_sha256 makes, sha256("") and sha256("abc"), end in no
\* error: no exception leaves sha256 while test_sha256 is its caller.
C6_TestCallsComplete == ~(caller = "test_sha256" /\ pc = "raised")

\* what sha256 returns for each of Messages when it is the first call made
FirstCallDigest(m) ==
  CASE m = Bytes(<< >>) -> expected1
    [] m = Bytes(abc) -> abc_digest
    [] m = Bytes(TwoBlockMessage) -> <<
         "8","5","e","6","5","5","d","6","4","1","7","a","1","7","9","5",
         "3","3","6","3","3","7","6","a","6","2","4","c","d","e","5","c",
         "7","6","e","0","9","5","8","9","c","a","c","5","f","8","1","1",
         "c","c","4","b","3","2","c","1","f","2","0","e","5","3","3","a" >>
    [] m = Bytes(Pattern(55, 1)) -> <<
         "e","8","7","b","2","5","3","0","5","2","5","4","c","d","0","3",
         "a","1","a","b","3","d","2","c","e","9","2","9","8","6","a","9",
         "0","3","c","4","f","b","c","0","c","7","6","d","b","2","e","5",
         "2","a","2","6","f","8","8","b","0","a","9","7","c","e","1","0" >>
    [] m = Bytes(Pattern(64, 255)) -> <<
         "6","1","3","6","c","f","3","7","b","0","d","0","2","c","6","0",
         "7","5","9","2","0","2","2","0","f","9","e","f","b","4","6","0",
         "c","e","2","4","d","1","8","6","a","6","3","2","d","0","f","4",
         "e","5","d","5","5","a","0","6","b","4","3","6","6","6","b","9" >>
    [] m = Bytes(Pattern(120, 37)) -> <<
         "2","3","0","4","4","6","3","3","5","4","b","a","4","c","3","4",
         "1","8","5","6","7","c","c","1","d","2","d","9","d","2","e","2",
         "9","7","c","f","b","9","1","2","5","a","f","3","6","d","0","5",
         "5","2","a","8","9","d","9","3","c","8","8","0","4","2","b","f" >>

\* C7: sha256 keeps no state between calls: a first call of sha256(m) returns
\* FirstCallDigest(m), and so does a call of sha256(m) after any sequence of
\* earlier calls.
C7_NoStateBetweenCalls ==
  /\ (pc = "idle" /\ message.type = "bytes" /\ previous.type = "unbound") =>
        result = FirstCallDigest(message)
  /\ (pc = "idle" /\ message.type = "bytes" /\ previous.type # "unbound") =>
        result = FirstCallDigest(message)

\* a call has returned that followed a call with another message
C7_Witness ==
  /\ pc = "idle"
  /\ message.type = "bytes"
  /\ previous.type = "bytes"
  /\ previous # message
  /\ result # << >>

\* C8: parse_message fails with MalformedInput, and returns no blocks, on a
\* byte sequence whose length is not a multiple of 64.
C8_ParseRejectsPartialBlock ==
  (func = "parse_message" /\ Len(arg) % 64 # 0) => ret.type = "MalformedInput"

\* C9: every value sha256_hash_computation stores is a word in [0, 2^32):
\* the schedule entries, the working variables, temp1, temp2 and the running
\* state; and rotr, ch, maj and the four sigma functions return words on the
\* words they are applied to.
C9_WordsStayWords ==
  /\ \A i \in 1..Len(w) : IsWord(w[i])
  /\ \A i \in 1..Len(h) : IsWord(h[i])
  /\ \A i \in 1..8 : IsWord(Working(reg)[i])
  /\ IsWord(reg.temp1)
  /\ IsWord(reg.temp2)
  /\ (pc = "schedule" /\ t < 64) =>
        /\ IsWord(sigma0_256_small(w[t - 15 + 1]))
        /\ IsWord(sigma1_256_small(w[t - 2 + 1]))
        /\ IsWord(rotr(w[t - 15 + 1], 7))
  /\ (pc = "rounds" /\ t < 64) =>
        /\ IsWord(sigma1_256(reg.e))
        /\ IsWord(sigma0_256(reg.a))
        /\ IsWord(ch(reg.e, reg.f, reg.g))
        /\ IsWord(maj(reg.a, reg.b, reg.c))

\* the last round of a block: every word of the schedule is there and the
\* working variables have been through 63 rounds
C9_Witness ==
  /\ pc = "rounds"
  /\ t = 63
  /\ Len(w) = 64
  /\ Len(reg.e.b) = 32
  /\ Len(reg.temp1.b) = 32

\* the value of a byte sequence read as a big-endian unsigned integer
RECURSIVE BigEndian(_)
BigEndian(bs) ==
  IF bs = << >> THEN 0 ELSE BigEndian(SubSeq(bs, 1, Len(bs) - 1)) * 256 + bs[Len(bs)]

\* C10: padding(m) is m, then 0x80, then k zero bytes, k in 0..63 the least
\* that brings the length to 56 mod 64, then 8 bytes holding 8 * len(m),
\* big-endian.
C10_PaddingLayout ==
  func = "padding" =>
    LET n == Len(arg)
        k == CHOOSE j \in 0..63 : (n + 1 + j) % 64 = 56
        p == ret.val
    IN  /\ ret.type = "bytes"
        /\ Len(p) = n + 1 + k + 8
        /\ SubSeq(p, 1, n) = arg
        /\ p[n + 1] = 128
        /\ \A i \in (n + 2)..(n + 1 + k) : p[i] = 0
        /\ BigEndian(SubSeq(p, n + k + 2, n + k + 9)) = 8 * n
        /\ \A i \in (n + k + 2)..(n + k + 9) : p[i] \in 0..255

C10_Witness ==
  /\ func = "padding"
  /\ Len(arg) = 56
  /\ Len(ret.val) = 128
  /\ ret.val[127] = 1
  /\ ret.val[128] = 192

====
